---- MODULE Spec2Model ----
(***************************************************************************)
(* Model of codex-rs/core/src/rollout/recorder.rs: the RolloutRecorder     *)
(* handle, the bounded mpsc channel of RolloutCmd, the rollout_writer task *)
(* that owns the .jsonl file, JsonlWriter::write_line, and the replay      *)
(* parser get_rollout_history.                                             *)
(*                                                                         *)
(* The file is a sequence of tokens: the serialized text of one JSON       *)
(* object ("json"), a proper prefix of such a text left by a failed        *)
(* write_all ("frag"), the newline ("nl"), and, for files not written by   *)
(* the recorder, non-JSON text ("garbage") and whitespace ("space").       *)
(*                                                                         *)
(* Callers are anonymous: a call is identified by its number in the log    *)
(* `calls`, which also holds where the call stands (suspended in tx.send,  *)
(* waiting for the ack, returned Ok or Err). The methods take &self, so    *)
(* any live clone of the handle serves any number of concurrent calls.     *)
(***************************************************************************)
EXTENDS Integers, Sequences, FiniteSets, TLC

\* ------------------------------------------------------------------ bounds
\* Number of calls in progress at once, and of live clones of the handle.
NumProducers == 2
\* Total number of record_* / shutdown calls issued in one run.
MaxCalls == 2
\* Capacity of the mpsc channel. The source sets 256 (recorder.rs:155); the
\* model scales it down so that MaxCalls exceeds it and senders suspend.
Capacity == 1
\* Number of write_line calls whose serialization, append or flush fails.
MaxFaults == 1
\* Number of lines of a file handed to get_rollout_history in ReplaySpec.
MaxFileLines == 2

VARIABLES
    created,   \* "no" | "yes" | "failed": outcome of RolloutRecorder::new
    wpc,       \* position of the rollout_writer task
    wcur,      \* the RolloutCmd the writer dequeued and is processing
    channel,   \* mpsc queue of RolloutCmd, oldest first
    handles,   \* number of live RolloutRecorder values (Sender clones)
    calls,     \* log of every call: operation, argument, state, ack state
    file,      \* content of the rollout file, a sequence of tokens
    history,   \* last result of get_rollout_history
    enq,       \* call numbers in the order their send completed
    deq,       \* call numbers in the order the writer dequeued their command
    faults,    \* number of failed write_line operations so far
    ioerr,     \* a write_all or flush of some line has failed
    errs       \* the steps of write_line that have failed so far: "ser"
               \* (to_string), "append" (write_all), "flush"

vars == <<created, wpc, wcur, channel, handles, calls, file, history, enq,
          deq, faults, ioerr, errs>>

\* ------------------------------------------------------------- line codec
NL == [t |-> "nl", rt |-> "", kind |-> "", id |-> 0, persist |-> TRUE]

\* serde_json::to_string of a value: one JSON object text. rt is the value of
\* the record_type field ("none": the field is absent), kind the shape of the
\* remaining fields.
Json(rt, item) ==
    [t |-> "json", rt |-> rt, kind |-> item.kind, id |-> item.id,
     persist |-> item.persist]

\* A proper, non-empty prefix of the text of j.
Frag(j) == [j EXCEPT !.t = "frag"]

\* The current session's SessionMeta built by RolloutRecorder::new.
SessionMeta == [kind |-> "meta", id |-> 0, persist |-> TRUE]

\* SessionMetaLine { record_type, meta } with #[serde(flatten)].
SessionMetaLine(record_type, meta) == Json(record_type, meta)

\* EventLine { record_type: "event", event } with #[serde(flatten)].
EventLine(event) == Json("event", event)

\* A ResponseItem is serialized as is: no record_type field.
ResponseItemLine(item) == Json("none", item)

\* The external persistence predicates: opaque booleans of the argument.
is_persisted_response_item(item) == item.persist
is_persisted_event(event) == event.persist

\* ------------------------------------------------------ JsonlWriter
\* What the operating system does with one write_line: serialization fails
\* (ser), write_all appends "all" of the line, or fails after appending
\* "none" of it, a proper "part" of the object text, or the whole object
\* text without its newline ("body"); flush succeeds or fails.
IoOutcomes ==
    { [ser |-> TRUE, written |-> w, flush |-> f] :
          w \in {"all", "none", "part", "body"}, f \in BOOLEAN }
    \cup { [ser |-> FALSE, written |-> "none", flush |-> TRUE] }

IoClean == [ser |-> TRUE, written |-> "all", flush |-> TRUE]

Bytes(j, written) ==
    CASE written = "all"  -> <<j, NL>>
      [] written = "body" -> <<j>>
      [] written = "part" -> <<Frag(j)>>
      [] OTHER            -> <<>>

\* A wrong file: opened without append(true), every write starts at offset 0
\* and the earlier content is overwritten.
write_line_overwrite(f, j, o) ==
    IF ~o.ser THEN [file |-> f, ok |-> FALSE]
    ELSE [file |-> Bytes(j, o.written)
                     \o SubSeq(f, Len(Bytes(j, o.written)) + 1, Len(f)),
          ok |-> o.flush]

\* JsonlWriter::write_line: `?` on to_string, `let _ =` on write_all, `?` on
\* flush. The result of write_all is discarded: only a serialization or a
\* flush error is returned.
write_line(f, j, o) ==
    IF ~o.ser THEN [file |-> f, ok |-> FALSE]
    ELSE [file |-> f \o Bytes(j, o.written), ok |-> o.flush]

\* ------------------------------------------------------ replay parser
\* str::lines: split at the newlines; no empty line after a final newline.
RECURSIVE SplitLines(_)
SplitLines(f) ==
    IF f = <<>> THEN <<>>
    ELSE LET nls == {i \in 1..Len(f) : f[i].t = "nl"}
             k == IF nls = {} THEN Len(f) + 1
                  ELSE CHOOSE i \in nls : \A j \in nls : i <= j
         IN <<SubSeq(f, 1, k - 1)>> \o SplitLines(SubSeq(f, k + 1, Len(f)))

\* line.trim().is_empty()
IsBlank(line) == \A i \in 1..Len(line) : line[i].t = "space"

NonSpace(line) == SelectSeq(line, LAMBDA tok : tok.t # "space")

\* serde_json::from_str::<Value>(line) succeeds: the line is the text of one
\* JSON value, with optional whitespace around it.
ParsesAsJson(line) ==
    /\ Len(NonSpace(line)) = 1
    /\ NonSpace(line)[1].t = "json"

\* serde_json::from_value::<T>: the remaining fields have the shape of T.
Deserialize(v, kind) ==
    IF v.kind = kind
    THEN <<[kind |-> v.kind, id |-> v.id, persist |-> v.persist]>>
    ELSE <<>>

\* A wrong loop body: a response item read back is not filtered again.
ReplayLineNoRefilter(line) ==
    IF IsBlank(line) THEN <<>>
    ELSE IF ~ParsesAsJson(line) THEN <<>>
    ELSE LET v == NonSpace(line)[1] IN
         CASE v.rt = "state" -> <<>>
           [] v.rt = "event" -> Deserialize(v, "event")
           [] v.rt \in {"prev_session_meta", "session_meta"} ->
                  Deserialize(v, "meta")
           [] v.rt \in {"response", "none"} -> Deserialize(v, "response")
           [] OTHER -> <<>>

\* The body of the `for line in lines` loop of get_rollout_history: the
\* RolloutItems (none or one) the line contributes.
ReplayLine(line) ==
    IF IsBlank(line) THEN <<>>
    ELSE IF ~ParsesAsJson(line) THEN <<>>
    ELSE LET v == NonSpace(line)[1] IN
         CASE v.rt = "state" -> <<>>
           [] v.rt = "event" -> Deserialize(v, "event")
           [] v.rt \in {"prev_session_meta", "session_meta"} ->
                  Deserialize(v, "meta")
           [] v.rt \in {"response", "none"} ->
                  LET r == Deserialize(v, "response") IN
                  IF r # <<>> /\ is_persisted_response_item(r[1])
                  THEN r ELSE <<>>
           [] OTHER -> <<>>

RECURSIVE ReplayLines(_)
ReplayLines(lines) ==
    IF lines = <<>> THEN <<>>
    ELSE ReplayLine(Head(lines)) \o ReplayLines(Tail(lines))

\* A wrong scan: a line that does not parse ends the loop.
RECURSIVE ReplayLinesAbort(_)
ReplayLinesAbort(lines) ==
    IF lines = <<>> THEN <<>>
    ELSE IF ~IsBlank(Head(lines)) /\ ~ParsesAsJson(Head(lines)) THEN <<>>
    ELSE ReplayLine(Head(lines)) \o ReplayLinesAbort(Tail(lines))

\* A wrong result: Resumed even when no line yielded a record.
InitialHistoryAlwaysResumed(items) == [tag |-> "Resumed", items |-> items]

\* `if items.is_empty() { New } else { Resumed(items) }`
InitialHistory(items) ==
    IF items = <<>> THEN [tag |-> "New", items |-> <<>>]
    ELSE [tag |-> "Resumed", items |-> items]

get_rollout_history_abort(f) == InitialHistory(ReplayLinesAbort(SplitLines(f)))

get_rollout_history(f) == InitialHistory(ReplayLines(SplitLines(f)))

NoHistory == [tag |-> "Unread", items |-> <<>>]

\* ------------------------------------------------------ state helpers
NoCmd == [type |-> "None", items |-> <<>>, id |-> 0]

\* The Receiver has been dropped: rollout_writer returned, Ok or Err.
RxClosed == wpc \in {"done", "failed"}

\* The argument of call c, the call numbered id.
ItemOf(c, id) == [kind |-> c.op, id |-> id, persist |-> c.persist]

\* The RolloutCmd that call sends: vec![item.clone()], the header, or
\* Shutdown { ack }.
CmdOf(c, id) ==
    CASE c.op = "response" ->
             [type |-> "AddResponseItems", items |-> <<ItemOf(c, id)>>, id |-> id]
      [] c.op = "event" ->
             [type |-> "AddEvents", items |-> <<ItemOf(c, id)>>, id |-> id]
      [] c.op = "meta" ->
             [type |-> "AddSessionMeta", items |-> <<ItemOf(c, id)>>, id |-> id]
      [] OTHER -> [type |-> "Shutdown", items |-> <<>>, id |-> id]

\* Some shutdown() has already returned Ok.
ShutdownReturned ==
    \E i \in 1..Len(calls) : calls[i].op = "shutdown" /\ calls[i].st = "ok"

\* A logged call. st: "send" (suspended in tx.send), "waitack" (in
\* rx_done.await), "ok" / "err" (returned). ack: the oneshot channel of a
\* shutdown, "pending", "fired" or "dropped".
NewCall(op, persist, st) ==
    [op |-> op, persist |-> persist, st |-> st,
     ack |-> IF op = "shutdown" THEN "pending" ELSE "none",
     shutBefore |-> ShutdownReturned, deadBefore |-> RxClosed]

\* The calls that have not returned.
InFlight == {id \in 1..Len(calls) : calls[id].st \in {"send", "waitack"}}

\* A method of a live handle can be called.
CanCall ==
    /\ created = "yes"
    /\ handles >= 1
    /\ Cardinality(InFlight) < NumProducers
    /\ Len(calls) < MaxCalls

\* ------------------------------------------------------ RolloutRecorder
Init ==
    /\ created = "no"
    /\ wpc = "none"
    /\ wcur = NoCmd
    /\ channel = <<>>
    /\ handles = 0
    /\ calls = <<>>
    /\ file = <<>>
    /\ history = NoHistory
    /\ enq = <<>>
    /\ deq = <<>>
    /\ faults = 0
    /\ ioerr = FALSE
    /\ errs = {}

\* create_log_file: now_local, create_dir_all, format and open each return
\* early with `?`; the file exists, empty, once open succeeded.
create_log_file(o) == o \notin {"time", "dir", "name", "open"}

\* A wrong new: the writer is spawned before the timestamp is formatted.
new_spawn_first(o) ==
    /\ created = "no"
    /\ IF create_log_file(o)
       THEN /\ wpc' = "header"
            /\ IF o # "format"
               THEN created' = "yes" /\ handles' = 1
               ELSE created' = "failed" /\ UNCHANGED handles
       ELSE /\ created' = "failed"
            /\ UNCHANGED <<wpc, handles>>
    /\ UNCHANGED <<wcur, channel, calls, file, history, enq, deq, faults,
                   ioerr, errs>>

\* RolloutRecorder::new: create_log_file()?, timestamp.format()?, then the
\* channel, the spawned rollout_writer and the handle.
new(o) ==
    /\ created = "no"
    /\ IF create_log_file(o) /\ o # "format"
       THEN /\ created' = "yes"
            /\ wpc' = "header"
            /\ handles' = 1
       ELSE /\ created' = "failed"
            /\ UNCHANGED <<wpc, handles>>
    /\ UNCHANGED <<wcur, channel, calls, file, history, enq, deq, faults,
                   ioerr, errs>>

\* #[derive(Clone)] on RolloutRecorder: one more Sender.
clone_recorder ==
    /\ created = "yes"
    /\ handles >= 1
    /\ handles < NumProducers
    /\ handles' = handles + 1
    /\ UNCHANGED <<created, wpc, wcur, channel, calls, file, history, enq,
                   deq, faults, ioerr, errs>>

\* Drop of one RolloutRecorder value; a value borrowed by a call in progress
\* cannot be dropped.
drop_recorder ==
    /\ created = "yes"
    /\ handles >= 1
    /\ handles >= 2 \/ InFlight = {}
    /\ handles' = handles - 1
    /\ UNCHANGED <<created, wpc, wcur, channel, calls, file, history, enq,
                   deq, faults, ioerr, errs>>

\* A wrong send: try_send, which also fails on a full channel.
SendClosedOrFull == RxClosed \/ Len(channel) >= Capacity

\* mpsc::Sender::send, polled: Err(SendError) once the Receiver is dropped.
SendClosed == RxClosed

\* A wrong channel: unbounded, a send never waits for room.
SendAlwaysReady == TRUE

\* mpsc::Sender::send, polled: a permit is free in the channel of capacity
\* 256 (scaled to Capacity), so the command is queued.
SendReady == Len(channel) < Capacity

\* self.tx.send(cmd).await for call number id, cs being the log with that
\* call in it: Err when the channel is closed; Ok once the command is queued
\* (a record call returns, shutdown goes on to rx_done.await); otherwise the
\* caller stays suspended in the send.
Send(id, cs) ==
    IF SendClosed
    THEN /\ calls' = [cs EXCEPT ![id].st = "err"]
         /\ UNCHANGED <<channel, enq>>
    ELSE IF SendReady
    THEN /\ channel' = Append(channel, CmdOf(cs[id], id))
         /\ enq' = Append(enq, id)
         /\ calls' = [cs EXCEPT ![id].st =
                          IF cs[id].op = "shutdown" THEN "waitack" ELSE "ok"]
    ELSE /\ calls' = [cs EXCEPT ![id].st = "send"]
         /\ UNCHANGED <<channel, enq>>

\* A call that reaches tx.send: it is logged and its send is polled.
CallSend(op, persist) ==
    Send(Len(calls) + 1, Append(calls, NewCall(op, persist, "send")))

\* The early return Ok(()) of a record call whose item is not persisted.
ReturnUnsent(op) ==
    /\ calls' = Append(calls, NewCall(op, FALSE, "ok"))
    /\ UNCHANGED <<channel, enq>>

\* A wrong record_event: no early filter.
record_event_unfiltered(persist) ==
    /\ CanCall
    /\ CallSend("event", persist)
    /\ UNCHANGED <<created, wpc, wcur, handles, file, history, deq, faults,
                   ioerr, errs>>

\* A wrong record_response_item: no early filter.
record_response_item_unfiltered(persist) ==
    /\ CanCall
    /\ CallSend("response", persist)
    /\ UNCHANGED <<created, wpc, wcur, handles, file, history, deq, faults,
                   ioerr, errs>>

record_response_item(persist) ==
    /\ CanCall
    /\ IF ~is_persisted_response_item([persist |-> persist])
       THEN ReturnUnsent("response")
       ELSE CallSend("response", persist)
    /\ UNCHANGED <<created, wpc, wcur, handles, file, history, deq, faults,
                   ioerr, errs>>

record_event(persist) ==
    /\ CanCall
    /\ IF ~is_persisted_event([persist |-> persist])
       THEN ReturnUnsent("event")
       ELSE CallSend("event", persist)
    /\ UNCHANGED <<created, wpc, wcur, handles, file, history, deq, faults,
                   ioerr, errs>>

record_session_meta ==
    /\ CanCall
    /\ CallSend("meta", TRUE)
    /\ UNCHANGED <<created, wpc, wcur, handles, file, history, deq, faults,
                   ioerr, errs>>

\* shutdown(), up to rx_done.await: the oneshot channel is created and the
\* Shutdown command sent.
shutdown ==
    /\ CanCall
    /\ CallSend("shutdown", TRUE)
    /\ UNCHANGED <<created, wpc, wcur, handles, file, history, deq, faults,
                   ioerr, errs>>

\* The caller of call id, suspended in tx.send, is woken: a permit was
\* released or the Receiver was dropped.
SendResume(id) ==
    /\ id \in 1..Len(calls)
    /\ calls[id].st = "send"
    /\ SendClosed \/ SendReady
    /\ Send(id, calls)
    /\ UNCHANGED <<created, wpc, wcur, handles, file, history, deq, faults,
                   ioerr, errs>>

\* rx_done.await in shutdown call id: Ok when the ack was sent, Err(RecvError)
\* when the oneshot Sender was dropped without sending.
AwaitAck(id, okWhen) ==
    /\ id \in 1..Len(calls)
    /\ calls[id].st = "waitack"
    /\ calls[id].ack \in {"fired", "dropped"}
    /\ calls' = [calls EXCEPT ![id].st =
                     IF calls[id].ack \in okWhen THEN "ok" ELSE "err"]
    /\ UNCHANGED <<created, wpc, wcur, channel, handles, file, history, enq,
                   deq, faults, ioerr, errs>>

\* A wrong shutdown: the RecvError is swallowed.
shutdown_await_swallow(id) == AwaitAck(id, {"fired", "dropped"})

shutdown_await(id) == AwaitAck(id, {"fired"})

\* ------------------------------------------------------ rollout_writer
\* rollout_writer returns: the Receiver and the commands still queued are
\* dropped, and with a queued Shutdown its oneshot Sender.
WriterReturns(status) ==
    /\ wpc' = status
    /\ wcur' = NoCmd
    /\ channel' = <<>>
    /\ calls' = [i \in DOMAIN calls |->
                    IF \E k \in 1..Len(channel) :
                           channel[k].type = "Shutdown" /\ channel[k].id = i
                    THEN [calls[i] EXCEPT !.ack = "dropped"]
                    ELSE calls[i]]

\* writer.write_line(j).await? and, on Ok, the move to the next position.
WriteLineThen(j, o, pc, cur) ==
    LET r == write_line(file, j, o) IN
    /\ o = IoClean \/ faults < MaxFaults
    /\ faults' = IF o = IoClean THEN faults ELSE faults + 1
    /\ ioerr' = (ioerr \/ (o.ser /\ (o.written # "all" \/ ~o.flush)))
    /\ errs' = errs \cup (IF ~o.ser THEN {"ser"} ELSE {})
                    \cup (IF o.ser /\ o.written # "all" THEN {"append"} ELSE {})
                    \cup (IF o.ser /\ ~o.flush THEN {"flush"} ELSE {})
    /\ file' = r.file
    /\ IF r.ok
       THEN /\ wpc' = pc
            /\ wcur' = cur
            /\ UNCHANGED <<channel, calls>>
       ELSE WriterReturns("failed")

\* The position after one item of the batch in wcur.
AfterItem == IF Tail(wcur.items) = <<>> THEN "recv" ELSE "handle"
RestOfBatch == IF Tail(wcur.items) = <<>> THEN NoCmd
               ELSE [wcur EXCEPT !.items = Tail(wcur.items)]

\* `if let Some(session_meta) = meta.take()`: collect_git_info (best effort,
\* it only adds an optional field to the header) and the header line.
rollout_writer_header(o) ==
    /\ wpc = "header"
    /\ WriteLineThen(SessionMetaLine("session_meta", SessionMeta), o,
                     "recv", NoCmd)
    /\ UNCHANGED <<created, handles, history, enq, deq>>

\* `while let Some(cmd) = rx.recv().await`: the oldest command is dequeued.
rollout_writer_recv ==
    /\ wpc = "recv"
    /\ channel # <<>>
    /\ channel' = Tail(channel)
    /\ deq' = Append(deq, Head(channel).id)
    /\ IF Head(channel).type # "Shutdown" /\ Head(channel).items = <<>>
       THEN wpc' = "recv" /\ wcur' = NoCmd
       ELSE wpc' = "handle" /\ wcur' = Head(channel)
    /\ UNCHANGED <<created, handles, calls, file, history, enq,
                   faults, ioerr, errs>>

\* A wrong writer: an empty queue ends the loop although Senders are alive.
rollout_writer_closed_early ==
    /\ wpc = "recv"
    /\ channel = <<>>
    /\ WriterReturns("done")
    /\ UNCHANGED <<created, handles, file, history, enq, deq, faults,
                   ioerr, errs>>

\* rx.recv() returns None: every Sender is dropped and the queue is empty.
rollout_writer_closed ==
    /\ wpc = "recv"
    /\ channel = <<>>
    /\ handles = 0
    /\ WriterReturns("done")
    /\ UNCHANGED <<created, handles, file, history, enq, deq, faults,
                   ioerr, errs>>

\* RolloutCmd::AddResponseItems: one item of the batch, filtered again.
rollout_writer_add_response_item(o) ==
    /\ wpc = "handle"
    /\ wcur.type = "AddResponseItems"
    /\ IF is_persisted_response_item(Head(wcur.items))
       THEN WriteLineThen(ResponseItemLine(Head(wcur.items)), o,
                          AfterItem, RestOfBatch)
       ELSE /\ o = IoClean
            /\ wpc' = AfterItem
            /\ wcur' = RestOfBatch
            /\ UNCHANGED <<channel, calls, file, faults, ioerr, errs>>
    /\ UNCHANGED <<created, handles, history, enq, deq>>

\* RolloutCmd::AddEvents: one event of the batch, written unfiltered.
rollout_writer_add_event(o) ==
    /\ wpc = "handle"
    /\ wcur.type = "AddEvents"
    /\ WriteLineThen(EventLine(Head(wcur.items)), o, AfterItem, RestOfBatch)
    /\ UNCHANGED <<created, handles, history, enq, deq>>

\* A wrong writer: the earlier session's header gets a record_type the
\* reader has no arm for.
rollout_writer_add_session_meta_prior(o) ==
    /\ wpc = "handle"
    /\ wcur.type = "AddSessionMeta"
    /\ WriteLineThen(SessionMetaLine("prior_session_meta", Head(wcur.items)),
                     o, "recv", NoCmd)
    /\ UNCHANGED <<created, handles, history, enq, deq>>

\* RolloutCmd::AddSessionMeta: the header of an earlier session.
rollout_writer_add_session_meta(o) ==
    /\ wpc = "handle"
    /\ wcur.type = "AddSessionMeta"
    /\ WriteLineThen(SessionMetaLine("prev_session_meta", Head(wcur.items)),
                     o, "recv", NoCmd)
    /\ UNCHANGED <<created, handles, history, enq, deq>>

\* A wrong writer: it leaves its loop once it has acknowledged a Shutdown.
rollout_writer_shutdown_break ==
    /\ wpc = "handle"
    /\ wcur.type = "Shutdown"
    /\ wpc' = "done"
    /\ wcur' = NoCmd
    /\ channel' = <<>>
    /\ calls' = [i \in DOMAIN calls |->
                    IF i = wcur.id THEN [calls[i] EXCEPT !.ack = "fired"]
                    ELSE IF \E k \in 1..Len(channel) :
                           channel[k].type = "Shutdown" /\ channel[k].id = i
                    THEN [calls[i] EXCEPT !.ack = "dropped"]
                    ELSE calls[i]]
    /\ UNCHANGED <<created, handles, file, history, enq, deq, faults,
                   ioerr, errs>>

\* A wrong writer: the ack Sender is dropped without a send.
rollout_writer_shutdown_noack ==
    /\ wpc = "handle"
    /\ wcur.type = "Shutdown"
    /\ calls' = [calls EXCEPT ![wcur.id].ack = "dropped"]
    /\ wpc' = "recv"
    /\ wcur' = NoCmd
    /\ UNCHANGED <<created, channel, handles, file, history, enq, deq,
                   faults, ioerr, errs>>

\* RolloutCmd::Shutdown { ack }: `let _ = ack.send(())`, and the loop goes on.
rollout_writer_shutdown ==
    /\ wpc = "handle"
    /\ wcur.type = "Shutdown"
    /\ calls' = [calls EXCEPT ![wcur.id].ack = "fired"]
    /\ wpc' = "recv"
    /\ wcur' = NoCmd
    /\ UNCHANGED <<created, channel, handles, file, history, enq, deq,
                   faults, ioerr, errs>>

\* get_rollout_history(path) on the recorder's file, once no writer task
\* owns it any more.
LoadHistory ==
    /\ RxClosed
    /\ history' = get_rollout_history(file)
    /\ UNCHANGED <<created, wpc, wcur, channel, handles, calls, file,
                   enq, deq, faults, ioerr, errs>>

SetupOutcomes == {"ok", "time", "dir", "name", "open", "format"}

Next ==
    \/ \E o \in SetupOutcomes : new(o)
    \/ \E b \in BOOLEAN : record_response_item(b)
    \/ \E b \in BOOLEAN : record_event(b)
    \/ record_session_meta
    \/ shutdown
    \/ \E id \in 1..MaxCalls : SendResume(id)
    \/ \E id \in 1..MaxCalls : shutdown_await(id)
    \/ clone_recorder
    \/ drop_recorder
    \/ \E o \in IoOutcomes : rollout_writer_header(o)
    \/ rollout_writer_recv
    \/ rollout_writer_closed
    \/ \E o \in IoOutcomes : rollout_writer_add_response_item(o)
    \/ \E o \in IoOutcomes : rollout_writer_add_event(o)
    \/ \E o \in IoOutcomes : rollout_writer_add_session_meta(o)
    \/ rollout_writer_shutdown
    \/ LoadHistory

Spec == Init /\ [][Next]_vars

\* The writer task's own steps, taken whenever one is possible: it is a
\* spawned tokio task and nothing but its own awaits suspends it.
WriterNext ==
    \/ \E o \in IoOutcomes : rollout_writer_header(o)
    \/ rollout_writer_recv
    \/ rollout_writer_closed
    \/ \E o \in IoOutcomes : rollout_writer_add_response_item(o)
    \/ \E o \in IoOutcomes : rollout_writer_add_event(o)
    \/ \E o \in IoOutcomes : rollout_writer_add_session_meta(o)
    \/ rollout_writer_shutdown

FairSpec == Spec /\ WF_vars(WriterNext)

\* Fair scheduling of the writer task and of the callers: a caller awaits its
\* call, so once tx.send or rx_done can complete, the caller's task has been
\* woken and is polled.
LiveSpec ==
    /\ Spec
    /\ WF_vars(WriterNext)
    /\ \A id \in 1..MaxCalls : WF_vars(SendResume(id))
    /\ \A id \in 1..MaxCalls : WF_vars(shutdown_await(id))

\* ------------------------------------------------------ replay of any file
Line(rt, kind, persist) ==
    <<[t |-> "json", rt |-> rt, kind |-> kind, id |-> 0, persist |-> persist]>>

Garbage == [t |-> "garbage", rt |-> "", kind |-> "", id |-> 0, persist |-> TRUE]
Space == [t |-> "space", rt |-> "", kind |-> "", id |-> 0, persist |-> TRUE]

\* Lines a file handed to get_rollout_history may hold: what the writer
\* writes, lines of other writers or policies, and damaged lines.
SampleLines ==
    { Line("none", "response", TRUE), Line("none", "response", FALSE),
      Line("response", "response", TRUE), Line("event", "event", TRUE),
      Line("event", "response", TRUE), Line("session_meta", "meta", TRUE),
      Line("prev_session_meta", "meta", TRUE),
      Line("prior_session_meta", "meta", TRUE), Line("state", "state", TRUE),
      Line("other", "response", TRUE),
      <<Garbage>>, <<Space>>, <<>> }

\* Lines that are not the text of one JSON value.
InvalidLines ==
    { <<Garbage>>, <<Frag(Line("none", "response", TRUE)[1])>>,
      Line("event", "event", TRUE) \o Line("none", "response", TRUE) }

RECURSIVE JoinLines(_)
JoinLines(lines) ==
    IF lines = <<>> THEN <<>>
    ELSE Head(lines) \o <<NL>> \o JoinLines(Tail(lines))

InsertAt(seq, pos, x) ==
    SubSeq(seq, 1, pos) \o <<x>> \o SubSeq(seq, pos + 1, Len(seq))

SampleFiles ==
    UNION { {JoinLines(ls) : ls \in [1..n -> SampleLines]} : n \in 0..MaxFileLines }

ReplayInit ==
    /\ created = "no"
    /\ wpc = "none"
    /\ wcur = NoCmd
    /\ channel = <<>>
    /\ handles = 0
    /\ calls = <<>>
    /\ file \in SampleFiles
    /\ history = NoHistory
    /\ enq = <<>>
    /\ deq = <<>>
    /\ faults = 0
    /\ ioerr = FALSE
    /\ errs = {}

\* get_rollout_history(path) on a file no recorder owns.
ReplayLoad ==
    /\ history' = get_rollout_history(file)
    /\ UNCHANGED <<created, wpc, wcur, channel, handles, calls, file,
                   enq, deq, faults, ioerr, errs>>

\* The file is damaged after it was read: one invalid line appears at line
\* position pos.
ReplayInsertInvalid(pos, bad) ==
    /\ history # NoHistory
    /\ Len(SplitLines(file)) <= MaxFileLines
    /\ pos <= Len(SplitLines(file))
    /\ file' = JoinLines(InsertAt(SplitLines(file), pos, bad))
    /\ UNCHANGED <<created, wpc, wcur, channel, handles, calls,
                   history, enq, deq, faults, ioerr, errs>>

ReplayNext ==
    \/ ReplayLoad
    \/ \E pos \in 0..MaxFileLines, bad \in InvalidLines :
           ReplayInsertInvalid(pos, bad)

ReplaySpec == ReplayInit /\ [][ReplayNext]_vars

\* ------------------------------------------------------ properties
Lines == SplitLines(file)

\* The line the writer writes for call number id.
LineOfCall(id) ==
    CASE calls[id].op = "response" -> ResponseItemLine(ItemOf(calls[id], id))
      [] calls[id].op = "event" -> EventLine(ItemOf(calls[id], id))
      [] OTHER -> SessionMetaLine("prev_session_meta", ItemOf(calls[id], id))

\* The record of call id is in the file as a complete line of its own.
InFile(id) == \E n \in 1..Len(Lines) : Lines[n] = <<LineOfCall(id)>>

\* Some text of the record of call id, complete or not, is in the file.
Touches(id) ==
    \E i \in 1..Len(file) : file[i].t \in {"json", "frag"} /\ file[i].id = id

IsPrefix(a, b) == Len(a) <= Len(b) /\ SubSeq(b, 1, Len(a)) = a

Position(seq, x) == CHOOSE k \in 1..Len(seq) : seq[k] = x

IsShutdown(id) == calls[id].op = "shutdown"

HeaderLine == <<SessionMetaLine("session_meta", SessionMeta)>>

\* The lines of the file that are the text of one JSON value.
CompleteLines == SelectSeq(Lines, ParsesAsJson)

\* C1: whenever a shutdown() call has returned Ok, the record of every
\* command enqueued before that call's Shutdown command is in the file.
C1_DurableShutdown ==
    \A s \in 1..Len(calls) :
        (IsShutdown(s) /\ calls[s].st = "ok") =>
            \A k \in 1..Len(enq) :
                (k < Position(enq, s) /\ ~IsShutdown(enq[k])) => InFile(enq[k])

\* C2 as stated: the file holds no text of a record call issued after a
\* shutdown() had returned Ok.
C2_NothingAfterShutdown ==
    \A id \in 1..Len(calls) : calls[id].shutBefore => ~Touches(id)

\* C2 as amended: the writer acknowledges a dequeued Shutdown and goes back to
\* rx.recv with the queue intact, so later commands are dequeued and written
\* like any other; the file holds no text of a record call issued after the
\* writer task terminated.
C2_ShutdownKeepsWriter ==
    /\ [](\A id \in 1..Len(calls) : calls[id].deadBefore => ~Touches(id))
    /\ [][(wpc = "handle" /\ wcur.type = "Shutdown" /\ wpc' # wpc) =>
              (/\ wpc' = "recv"
               /\ calls'[wcur.id].ack = "fired"
               /\ channel' = channel)]_vars

\* A record call issued after a shutdown() returned Ok has its line in the
\* file.
C2_Witness ==
    \E id \in 1..Len(calls) : calls[id].shutBefore /\ InFile(id)

\* C3: if the file holds a complete line, the first one is the current
\* session header (record_type session_meta).
C3_HeaderFirst ==
    CompleteLines # <<>> => CompleteLines[1] = HeaderLine

\* The call numbers of the complete data lines of the file, in file order.
RECURSIVE IdsOf(_)
IdsOf(lines) ==
    IF lines = <<>> THEN <<>>
    ELSE (IF NonSpace(Head(lines))[1].id > 0
          THEN <<NonSpace(Head(lines))[1].id>> ELSE <<>>)
         \o IdsOf(Tail(lines))

DataIds == IdsOf(CompleteLines)

\* The call numbers of the records enqueued, in send-completion order.
SentIds == SelectSeq(enq, LAMBDA id : ~IsShutdown(id))

\* C4: the data lines of the file are a prefix of the records in the order
\* their sends completed, and all of them once the writer has acknowledged a
\* Shutdown enqueued after them.
C4_OrderPreserved ==
    /\ IsPrefix(DataIds, SentIds)
    /\ \A s \in 1..Len(calls) :
           (IsShutdown(s) /\ calls[s].st = "ok") =>
               IsPrefix(SelectSeq(SubSeq(enq, 1, Position(enq, s)),
                                  LAMBDA id : ~IsShutdown(id)), DataIds)

\* A call whose item failed its persistence predicate.
Rejected(id) ==
    calls[id].op \in {"response", "event"} /\ ~calls[id].persist

HasId(items, id) == \E n \in 1..Len(items) : items[n].id = id

\* C5: an item or event that failed its persistence predicate when it was
\* passed to record_response_item / record_event has no text in the file and
\* is in no replay of the file.
C5_FilterSafety ==
    \A id \in 1..Len(calls) :
        Rejected(id) =>
            /\ ~Touches(id)
            /\ ~HasId(get_rollout_history(file).items, id)
            /\ ~HasId(history.items, id)

\* A rejected item was recorded, another record was written, and the file
\* was replayed.
C5_Witness ==
    /\ \E id \in 1..Len(calls) : Rejected(id)
    /\ \E id \in 1..Len(calls) : InFile(id) /\ HasId(history.items, id)

NoDuplicates(seq) ==
    \A i, j \in 1..Len(seq) : seq[i] = seq[j] => i = j

\* C6: the channel never holds more than Capacity commands; a send suspends
\* only on a full channel and changes nothing then; a suspended send completes
\* only when a permit is free again, after a dequeue, by appending its command;
\* the queue only changes by such an append, by the writer taking its head, or
\* by the writer terminating; commands are dequeued once each in the order
\* their sends completed, and while the writer is alive each of them is
\* eventually dequeued.
C6_Backpressure ==
    /\ [](Len(channel) <= Capacity)
    /\ [](IsPrefix(deq, enq) /\ NoDuplicates(enq))
    /\ [][channel' # channel =>
              \/ /\ Len(channel) < Capacity
                 /\ \E id \in 1..Len(calls') :
                        /\ channel' = Append(channel, CmdOf(calls'[id], id))
                        /\ enq' = Append(enq, id)
              \/ /\ channel' = Tail(channel)
                 /\ deq' = Append(deq, Head(channel).id)
              \/ /\ wpc' \in {"done", "failed"}
                 /\ channel' = <<>>]_vars
    /\ [][\A id \in 1..Len(calls') :
              (/\ calls'[id].st = "send"
               /\ (id > Len(calls) \/ calls[id].st # "send")) =>
                  (Len(channel) = Capacity /\ channel' = channel)]_vars
    /\ [][\A id \in 1..Len(calls) :
              (calls[id].st = "send" /\ calls'[id].st \notin {"send", "err"}) =>
                  /\ Len(channel) < Capacity
                  /\ Len(deq) > 0
                  /\ channel' = Append(channel, CmdOf(calls[id], id))]_vars
    /\ \A k \in 1..MaxCalls :
           (Len(enq) >= k) ~> (Len(deq) >= k \/ RxClosed)

\* A sender is suspended on a full channel while the writer is alive.
C6_Witness ==
    \E id \in 1..Len(calls) :
        calls[id].st = "send" /\ Len(channel) = Capacity /\ ~RxClosed

\* C7: once a write_all or a flush of a line has failed, the writer task has
\* terminated with the error.
C7_WriteFailureEndsWriter == ioerr => wpc = "failed"

\* C8: a send (of a record call that passed the filter, of
\* record_session_meta, of shutdown) returns an error only when the writer
\* task has terminated; once it has, every such call returns an error and
\* queues nothing, and a caller suspended in a send is woken with the error.
C8_EnqueueFailureIffDead ==
    /\ [][\A id \in 1..Len(calls') :
              (/\ calls'[id].st = "err"
               /\ (id > Len(calls) \/ calls[id].st = "send"))
                  => RxClosed]_vars
    /\ [][\A id \in 1..Len(calls') :
              (/\ id > Len(calls)
               /\ RxClosed
               /\ (calls'[id].op \in {"meta", "shutdown"} \/ calls'[id].persist))
                  => (calls'[id].st = "err" /\ channel' = channel)]_vars
    /\ [](\A id \in 1..Len(calls) :
              (calls[id].st = "send" /\ RxClosed) => ENABLED SendResume(id))
    /\ [][\A id \in 1..Len(calls) :
              (calls[id].st = "send" /\ RxClosed /\ calls'[id].st # "send")
                  => calls'[id].st = "err"]_vars

\* A record call failed because the writer task had terminated.
C8_Witness ==
    \E id \in 1..Len(calls) :
        ~IsShutdown(id) /\ calls[id].st = "err" /\ RxClosed

\* C9: shutdown() returns Ok only when the writer dequeued its Shutdown
\* command and sent the ack; when the writer terminates with a Shutdown still
\* queued, the waiting shutdown() can return and returns an error.
C9_AckFailure ==
    /\ [](\A id \in 1..Len(calls) :
              (IsShutdown(id) /\ calls[id].st = "ok") =>
                  (calls[id].ack = "fired"
                       /\ \E k \in 1..Len(deq) : deq[k] = id))
    /\ [](\A id \in 1..Len(calls) :
              (calls[id].st = "waitack" /\ RxClosed) =>
                  (calls[id].ack \in {"fired", "dropped"}
                       /\ ENABLED shutdown_await(id)))
    /\ [][\A id \in 1..Len(calls) :
              (calls[id].st = "waitack" /\ calls[id].ack # "fired"
                   /\ calls'[id].st # "waitack") =>
                  (RxClosed /\ calls'[id].st = "err")]_vars

\* A shutdown() whose command was queued when the writer terminated with an
\* error has returned an error.
C9_Witness ==
    \E id \in 1..Len(calls) :
        /\ IsShutdown(id)
        /\ calls[id].st = "err"
        /\ calls[id].ack = "dropped"
        /\ \E k \in 1..Len(enq) : enq[k] = id

\* C10: a file read by get_rollout_history and then given one more line that
\* is not JSON, at any line position, replays to the same result.
C10_TolerantReplay ==
    history # NoHistory => get_rollout_history(file) = history

\* An invalid line was inserted into a file whose lines all yield a record.
C10_Witness ==
    /\ history.tag = "Resumed"
    /\ Len(history.items) = MaxFileLines
    /\ Len(Lines) = MaxFileLines + 1
    /\ \E n \in 1..MaxFileLines : ~ParsesAsJson(Lines[n])

\* The record_type values get_rollout_history reads as a session header.
SessionHeaderTags == {"session_meta", "prev_session_meta"}

\* The record_type values get_rollout_history has an arm for; "none" stands
\* for a line without the field.
KnownTags == {"state", "event", "response", "none"} \cup SessionHeaderTags

\* Reference classification of one line: it is the text of one JSON value
\* and is a persisted response item, an event or a session header.
RefYields(line) ==
    /\ Len(NonSpace(line)) = 1
    /\ LET v == NonSpace(line)[1] IN
       /\ v.t = "json"
       /\ \/ v.rt \in {"none", "response"} /\ v.kind = "response" /\ v.persist
          \/ v.rt = "event" /\ v.kind = "event"
          \/ v.rt \in SessionHeaderTags /\ v.kind = "meta"

\* The record a yielding line stands for.
RefRecord(line) ==
    [kind |-> NonSpace(line)[1].kind, id |-> NonSpace(line)[1].id,
     persist |-> NonSpace(line)[1].persist]

\* The reference replay: the records of the yielding lines, in file order.
RefItems(lines) ==
    LET sel == SelectSeq(lines, RefYields)
    IN [n \in 1..Len(sel) |-> RefRecord(sel[n])]

\* A line that is blank, unparseable, state-tagged or of an unrecognized
\* discriminant.
Inert(line) ==
    \/ IsBlank(line)
    \/ Len(NonSpace(line)) # 1
    \/ NonSpace(line)[1].t # "json"
    \/ NonSpace(line)[1].rt = "state"
    \/ NonSpace(line)[1].rt \notin KnownTags

\* C11: get_rollout_history returns New exactly when no line of the file
\* yields a record, in particular for an empty file and for a file whose
\* lines are all blank, unparseable, state-tagged or of an unrecognized
\* discriminant; otherwise it returns Resumed with a non-empty sequence.
C11_NoHistoryBoundary ==
    history # NoHistory =>
        /\ history.tag \in {"New", "Resumed"}
        /\ history.tag = "New" <=> \A n \in 1..Len(Lines) : ~RefYields(Lines[n])
        /\ history.tag = "Resumed" => history.items # <<>>
        /\ history.tag = "New" => history.items = <<>>
        /\ file = <<>> => history.tag = "New"
        /\ (\A n \in 1..Len(Lines) : Inert(Lines[n])) => history.tag = "New"

\* A file of one state-tagged line and one line of an unrecognized
\* discriminant was read, and the result is New.
C11_Witness ==
    /\ history.tag = "New"
    /\ \E n \in 1..Len(Lines) :
           ParsesAsJson(Lines[n]) /\ NonSpace(Lines[n])[1].rt = "state"
    /\ \E n \in 1..Len(Lines) :
           ParsesAsJson(Lines[n]) /\ NonSpace(Lines[n])[1].rt \notin KnownTags

\* C17: get_rollout_history returns exactly the records of the lines the
\* reference classification accepts, in file order; every other line
\* contributes nothing and does not stop the scan.
C17_ReplayIsReference ==
    history # NoHistory => history.items = RefItems(Lines)

\* A file was read in which a line after a skipped one yields a record: the
\* skipped line is unparseable, schema-mismatched, or a response item that
\* fails the predicate.
C17_Witness ==
    /\ history.tag = "Resumed"
    /\ \E n \in 1..Len(Lines) :
           /\ ~RefYields(Lines[n])
           /\ ~IsBlank(Lines[n])
           /\ \E m \in (n + 1)..Len(Lines) : RefYields(Lines[m])

\* A record call: record_response_item or record_event.
IsRecord(c) == c.op \in {"response", "event"}

\* C12: a record_response_item / record_event call whose item fails its
\* predicate returns Ok in the call step and leaves the channel, the send
\* order and the file unchanged; a call whose item passes returns Ok in the
\* very step that puts its command at the back of the channel, a step that
\* does not touch the file, and in no other step.
C12_EarlyFilterEnqueueOnly ==
    /\ [][\A id \in 1..Len(calls') :
              (id > Len(calls) /\ IsRecord(calls'[id]) /\ ~calls'[id].persist)
                  => /\ calls'[id].st = "ok"
                     /\ channel' = channel
                     /\ enq' = enq
                     /\ file' = file]_vars
    /\ [][\A id \in 1..Len(calls') :
              (/\ IsRecord(calls'[id])
               /\ calls'[id].persist
               /\ calls'[id].st = "ok"
               /\ (id > Len(calls) \/ calls[id].st # "ok"))
                  => /\ channel' = Append(channel, CmdOf(calls'[id], id))
                     /\ file' = file]_vars
    /\ [][\A id \in 1..Len(calls') :
              (/\ IsRecord(calls'[id])
               /\ \E k \in 1..Len(enq') : enq'[k] = id
               /\ ~\E k \in 1..Len(enq) : enq[k] = id)
                  => calls'[id].st = "ok"]_vars
    /\ [](\A id \in 1..Len(calls) :
              (IsRecord(calls[id]) /\ ~calls[id].persist) =>
                  (calls[id].st = "ok" /\ ~\E k \in 1..Len(enq) : enq[k] = id))

\* A rejected call has returned Ok, and a passing call has returned Ok while
\* its command is still queued and no text of its record is in the file.
C12_Witness ==
    /\ \E id \in 1..Len(calls) : Rejected(id) /\ calls[id].st = "ok"
    /\ \E id \in 1..Len(calls) :
           /\ IsRecord(calls[id]) /\ calls[id].persist /\ calls[id].st = "ok"
           /\ \E k \in 1..Len(channel) : channel[k].id = id
           /\ ~Touches(id)

\* C13: every step leaves the earlier content of the file as a prefix of
\* the later content, and a step of get_rollout_history leaves the file
\* unchanged.
C13_AppendOnly ==
    [][/\ IsPrefix(file, file')
       /\ history' # history => file' = file]_vars

\* The file holds the header and a record line, and has been replayed.
C13_Witness ==
    /\ Len(CompleteLines) >= 2
    /\ history.tag = "Resumed"

\* C14: when new() failed, no writer task was spawned and no channel, handle
\* or call exists; a writer task exists only if new() returned a handle.
C14_SetupFailure ==
    /\ created = "failed" =>
           /\ wpc = "none"
           /\ handles = 0
           /\ channel = <<>>
           /\ calls = <<>>
           /\ file = <<>>
    /\ wpc # "none" => created = "yes"
    /\ handles > 0 => created = "yes"

\* new() has failed.
C14_Witness == created = "failed" /\ wpc = "none"

\* The file ends inside a line: its last token is not the newline.
Unterminated == file # <<>> /\ file[Len(file)].t # "nl"

\* C15: every line of the file is the text of exactly one record; the only
\* other text the file may hold is what a failed append left of one record
\* at the very end of the file. No line holds a fragment of one record
\* followed by another record.
C15_NoPartialLines ==
    \A n \in 1..Len(Lines) :
        \/ Len(Lines[n]) = 1 /\ Lines[n][1].t = "json"
        \/ /\ n = Len(Lines)
           /\ Unterminated
           /\ Len(Lines[n]) = 1

\* The JSON texts in the file that stem from a record_session_meta call.
PriorHeaderTokens ==
    {i \in 1..Len(file) :
         file[i].t = "json" /\ file[i].kind = "meta" /\ file[i].id > 0}

\* The number of records the lines before line n yield.
YieldedBefore(n) ==
    Cardinality({m \in 1..(n - 1) : RefYields(Lines[m])})

\* The header lines with a record_type in tags are in the replay result, each
\* at the position of its line among the yielding lines.
HeadersReplayed(tags) ==
    \A n \in 1..Len(Lines) :
        (/\ ParsesAsJson(Lines[n])
         /\ NonSpace(Lines[n])[1].rt \in tags
         /\ NonSpace(Lines[n])[1].kind = "meta")
            => /\ Len(history.items) > YieldedBefore(n)
               /\ history.items[YieldedBefore(n) + 1] = RefRecord(Lines[n])

\* C16 as stated: a header passed to record_session_meta is written with
\* record_type prior_session_meta, and a replay holds every line of
\* record_type session_meta or prior_session_meta as a session header at
\* its file position.
C16_PriorSessionMeta ==
    /\ \A i \in PriorHeaderTokens : file[i].rt = "prior_session_meta"
    /\ history # NoHistory =>
           HeadersReplayed({"session_meta", "prior_session_meta"})

\* C16 as amended: the record_type written is prev_session_meta, and a
\* replay holds every line of record_type session_meta or prev_session_meta
\* as a session header at its file position.
C16_PrevSessionMeta ==
    /\ \A i \in PriorHeaderTokens : file[i].rt = "prev_session_meta"
    /\ history # NoHistory =>
           HeadersReplayed({"session_meta", "prev_session_meta"})

\* The file holds the current header and, after it, the line of a
\* record_session_meta call, and the replay holds both headers.
C16_Witness ==
    /\ \E id \in 1..Len(calls) : calls[id].op = "meta" /\ InFile(id)
    /\ CompleteLines # <<>> /\ CompleteLines[1] = HeaderLine
    /\ history.tag = "Resumed"
    /\ Cardinality({k \in 1..Len(history.items) :
                        history.items[k].kind = "meta"}) >= 2

\* The command of call id is queued in the channel, or dequeued and in the
\* hands of the writer.
Pending(id) ==
    \/ \E k \in 1..Len(channel) : channel[k].id = id
    \/ wcur.id = id

\* C18: while the writer task runs, every record whose send has completed
\* and whose line is not in the file belongs to a command still queued (or
\* just dequeued and about to be written); and a line that was written with
\* its newline stays in the file.
C18_CrashLossBound ==
    /\ [](~RxClosed =>
              \A k \in 1..Len(enq) :
                  (~IsShutdown(enq[k]) /\ ~InFile(enq[k])) => Pending(enq[k]))
    /\ [][\A n \in 1..Len(Lines) :
              (n < Len(Lines) \/ ~Unterminated) =>
                  (Len(Lines') >= n /\ Lines'[n] = Lines[n])]_vars

\* write_line has returned an error: serialization or flush failed.
WriteLineFailed == "ser" \in errs \/ "flush" \in errs

\* C19: under fair scheduling, unless a serialization or flush error occurs,
\* again and again no call is suspended in tx.send or waiting for its ack:
\* every such call, a shutdown() that found the channel full included,
\* eventually returns; and a call returns an error only after such an error,
\* so it returns Ok.
C19_ShutdownLiveness ==
    /\ []<>(InFlight = {} \/ WriteLineFailed)
    /\ [](\A id \in 1..Len(calls) : calls[id].st = "err" => WriteLineFailed)

\* A shutdown() that was suspended on a full channel has returned Ok, with no
\* serialization or flush error.
C19_Witness ==
    /\ ~WriteLineFailed
    /\ \E id \in 1..Len(calls) :
           /\ IsShutdown(id)
           /\ calls[id].st = "ok"
           /\ \E k \in 1..Len(enq) :
                  enq[k] = id /\ k > Capacity /\ Len(deq) >= k

\* The Shutdown command of call id has been acknowledged.
Acked(id) == id <= Len(calls) /\ calls[id].ack = "fired"

\* C20: the writer task returns only in a step in which write_line fails at
\* serialization or flush, or in which every Sender is dropped and the queue
\* is empty, and it does return in both cases; while a handle is alive and no
\* such error has occurred the writer runs, and it dequeues every Shutdown
\* command once and acknowledges it once, however many there are: again and
\* again every Shutdown command queued so far has been acknowledged.
C20_WriterTermination ==
    /\ [][(~RxClosed /\ RxClosed') =>
              \/ /\ wpc' = "failed"
                 /\ ~WriteLineFailed
                 /\ WriteLineFailed'
              \/ /\ wpc' = "done"
                 /\ wpc = "recv"
                 /\ handles = 0
                 /\ channel = <<>>]_vars
    /\ [](WriteLineFailed => wpc = "failed")
    /\ []((handles >= 1 /\ ~WriteLineFailed) => ~RxClosed)
    /\ []<>((created = "yes" /\ handles = 0) => RxClosed)
    /\ [](NoDuplicates(deq))
    /\ [][\A id \in 1..Len(calls) :
              /\ calls[id].ack = "fired" => calls'[id].ack = "fired"
              /\ (calls[id].ack # "fired" /\ calls'[id].ack = "fired") =>
                     (wcur.id = id /\ wcur.type = "Shutdown")]_vars
    /\ []<>(WriteLineFailed
              \/ \A k \in 1..Len(enq) : IsShutdown(enq[k]) => Acked(enq[k]))

\* Two shutdown() calls on the same recorder have both been acknowledged and
\* have returned Ok, and the writer task is still running.
C20_Witness ==
    /\ ~RxClosed
    /\ handles >= 1
    /\ \E i, j \in 1..Len(calls) :
           /\ i < j
           /\ IsShutdown(i) /\ Acked(i) /\ calls[i].st = "ok"
           /\ IsShutdown(j) /\ Acked(j) /\ calls[j].st = "ok"

====
